---------------------------- MODULE Spec2Model ----------------------------
(***************************************************************************)
(* The agent run loop of control_flow/agent.py: Agent._get_tools with its  *)
(* logging wrapper, the run-turn executor, Agent.run_async and run_agent,  *)
(* with the tasks' complete / fail tools and the model's behaviour inside  *)
(* one round-trip as the environment.                                      *)
(***************************************************************************)
EXTENDS Integers, Sequences, FiniteSets, TLC

(* ------------------------------ bounds --------------------------------- *)
MaxTasks == 2
MaxIterations == 3
MaxToolErrors == 1
MaxTurns == MaxIterations + 2
MaxOrchTurns == 3
MaxSubTurns == 2
MaxSubCalls == 2
MaxKeys == 3

(* ------------------------------ values --------------------------------- *)
PENDING == "pending"
COMPLETED == "completed"
FAILED == "failed"
TaskStatus == {PENDING, COMPLETED, FAILED}

None == -1
EndRun == -2
Results == {5}
NoMessage == "None"
Messages == {"unsolvable"}
Args == {1, 2}
Owners == {"flow", "agent", "assistant"}
NoModel == "None"
Absent == "absent"
assistant_model_default == "default-model"

VARIABLES
    tasks,                  \* Agent.tasks: sequence of [id, status, result, error]
    system_access,          \* Agent.system_access
    user_access,            \* Agent.user_access
    max_agent_iterations,   \* settings.max_agent_iterations
    entry,                  \* "run_async": Agent.run called directly; "run_agent": through run_agent
    flow_tools,             \* Agent.flow.tools
    agent_tools,            \* Agent.tools
    assistant_tools,        \* Agent.assistant.tools
    sink_fails,             \* may the artifact sink raise
    assistant_model,        \* Agent.assistant.model
    flow_model,             \* Agent.flow.model
    run_kwargs_model,       \* run_kwargs["model"] as run_async holds it (Absent: no such key)
    model,                  \* the model given to the Run of the current turn
    pc,                     \* position in run_async / run_agent
    counter,                \* the local `counter` of run_async
    tools,                  \* the tool list given to the current round-trip
    instructions,           \* the task section of the instructions of the current round-trip
    layers,                 \* per tool list: logging wrappers around the _python_fn of its pre-built FunctionTool
    last_call,              \* the tool invocation last answered to the model in the current round-trip
    turn_log,               \* what the current call of execute_openai_run did so far
    result,                 \* the list run_async returns
    outcome,                \* what run_agent does: [kind, value]
    turns,                  \* number of calls of openai_run so far
    pending_after,          \* per finished turn: was some task PENDING when it returned
    end_run_turn,           \* turn in which a complete/fail tool with end_run=true was invoked (0: none)
    tool_errors,            \* tool invocations that failed on their arguments so far
    orch_pc,                \* position of the orchestrator
    orch_propagate,         \* is an uncaught failure to be propagated
    orch_agent,             \* the agent whose turn is running
    orch_turns,             \* agent turns started by the orchestrator
    orch_failures,          \* the failures raised in the orchestrator's loop, in order
    events,                 \* the events the orchestrator has emitted, in order
    sub_pc,                 \* position of the agent whose tool lists hold assistants
    sub_assistants,         \* the assistants in Agent.tools, each by its model_dump_json()
    TEMP_THREADS,           \* the module's dict: model_dump_json() -> thread (0: no such key)
    threads_made,           \* Thread objects constructed so far (the flow's thread is number 1)
    sub_tools,              \* the sub-agent tools of the current round-trip: [assistant, thread]
    sub_turns,              \* turns of the agent so far
    sub_calls,              \* the invocations of sub-agent tools so far: [assistant, turn]
    runs,                   \* the Runs the sub-agents made: [assistant, thread, call]
    tui_run,                \* run_context(run=...)
    tui_hold,               \* run_context(hold=...): "true", "false" or "none"
    hold,                   \* TUIApp.hold
    _is_ready,              \* TUIApp._is_ready
    app,                    \* the Textual app: "new", "starting", "running", "exited"
    ctx,                    \* position of the caller in run_context
    keys                    \* the keys the user pressed, in order

agent_config == <<system_access, user_access, max_agent_iterations, entry,
                  sink_fails, assistant_model, flow_model>>

tool_lists == <<flow_tools, agent_tools, assistant_tools>>

config == <<agent_config, tool_lists>>

vars == <<tasks, config, run_kwargs_model, model, pc, counter, tools, instructions, layers, last_call,
          turn_log, result, outcome, turns, pending_after, end_run_turn,
          tool_errors, orch_pc, orch_propagate, orch_agent, orch_turns,
          orch_failures, events, sub_pc, sub_assistants, TEMP_THREADS, threads_made,
          sub_tools, sub_turns, sub_calls, runs, tui_run, tui_hold, hold, _is_ready,
          app, ctx, keys>>

orchestrator == <<orch_pc, orch_propagate, orch_agent, orch_turns, orch_failures, events>>

subagent == <<sub_pc, sub_assistants, TEMP_THREADS, threads_made, sub_tools, sub_turns,
              sub_calls, runs>>

tui == <<tui_run, tui_hold, hold, _is_ready, app, ctx, keys>>

(* the assistants an agent may hold as tools, by their model_dump_json() *)
SubConfigs == {"analyst", "writer"}
FlowThread == 1

NewTask(i) == [id |-> i, status |-> PENDING, result |-> None, error |-> NoMessage]

(* a plain python callable / a pre-built FunctionTool held in a tool list *)
Callable(o) ==
    [kind |-> "callable", task_id |-> 0, end_run |-> FALSE, task |-> 0, owner |-> o]
PreBuilt(o) ==
    [kind |-> "function_tool", task_id |-> 0, end_run |-> FALSE, task |-> 0, owner |-> o]

ToolSetups ==
    { << <<Callable("flow")>>, <<PreBuilt("agent")>>, <<>> >>,
      << <<PreBuilt("flow")>>, <<>>, <<Callable("assistant")>> >>,
      << <<Callable("flow")>>, <<Callable("agent")>>, <<PreBuilt("assistant")>> >> }

(* ------------------------- Agent._get_tools ---------------------------- *)
numbered_tasks_zero_based(ts) == [i \in 1..Len(ts) |-> <<i - 1, ts[i]>>]

numbered_tasks(ts) == [i \in 1..Len(ts) |-> <<i, ts[i]>>]

early_end_run_anytasks(sa, ts) == (~sa) /\ Len(ts) >= 1

early_end_run_ignores_access(sa, ts) == Len(ts) = 1

early_end_run(sa, ts) == (~sa) /\ Len(ts) = 1

(* the complete and the fail tool of the task at position i are made by that task *)
RECURSIVE task_tools(_, _, _)
task_tools(ts, i, flag) ==
    IF i > Len(ts) THEN <<>>
    ELSE << [kind |-> "complete", task_id |-> numbered_tasks(ts)[i][1], end_run |-> flag,
             task |-> i, owner |-> "task"],
            [kind |-> "fail", task_id |-> numbered_tasks(ts)[i][1], end_run |-> flag,
             task |-> i, owner |-> "task"] >>
         \o task_tools(ts, i + 1, flag)

end_run_tool ==
    [kind |-> "end_run", task_id |-> 0, end_run |-> TRUE, task |-> 0, owner |-> "module"]
talk_to_human ==
    [kind |-> "talk_to_human", task_id |-> 0, end_run |-> FALSE, task |-> 0, owner |-> "module"]

base_tools_agent_first == agent_tools \o flow_tools \o assistant_tools

base_tools == flow_tools \o agent_tools \o assistant_tools

_get_tools_end_run_le1(ts, sa, ua) ==
    base_tools
    \o (IF Len(ts) <= 1 THEN <<end_run_tool>> ELSE <<>>)
    \o task_tools(ts, 1, early_end_run(sa, ts))
    \o (IF ua THEN <<talk_to_human>> ELSE <<>>)

_get_tools(ts, sa, ua) ==
    base_tools
    \o (IF Len(ts) = 0 THEN <<end_run_tool>> ELSE <<>>)
    \o task_tools(ts, 1, early_end_run(sa, ts))
    \o (IF ua THEN <<talk_to_human>> ELSE <<>>)

shared_lists_extended_in_place(ft, at, st, built) == <<built, at, st>>

(* line 319: `+` makes a new list, and the appends and extends of lines 321-340
   act on that list: the lists of the flow, the agent and the assistant after
   an assembly that built `built` *)
shared_lists(ft, at, st, built) == <<ft, at, st>>

HasTool(t) == \E k \in 1..Len(tools) : tools[k] = t

(* lines 342-383: every FunctionTool of the list gets its _python_fn replaced by
   a wrapper around its current _python_fn. A callable, a task tool, end_run and
   talk_to_human were turned into a new FunctionTool by this assembly; a
   pre-built FunctionTool is the same object in every assembly. *)
wrap(l) ==
    [o \in Owners |->
        IF \E k \in 1..Len(base_tools) :
              base_tools[k].kind = "function_tool" /\ base_tools[k].owner = o
        THEN l[o] + 1 ELSE l[o]]

depth(t) == IF t.kind = "function_tool" THEN layers[t.owner] ELSE 1

(* the function behind a callable or FunctionTool of a tool list *)
UserFn(a) == 2 * a

python_fn(a, v) ==
    [status |-> "returned", value |-> v, fn_calls |-> 1, fn_args |-> a, artifacts |-> 0,
     fn_status |-> "returned"]

(* lines 351-377, d wrappers deep: call original_fn, log the artifact, return the result *)
RECURSIVE modified_fn(_, _, _)
modified_fn(d, inner, sink_ok) ==
    IF d = 0 THEN inner
    ELSE LET r == modified_fn(d - 1, inner, sink_ok)
         IN IF r.status = "error" THEN r
            ELSE IF ~sink_ok THEN [r EXCEPT !.status = "error", !.value = None]
            ELSE [r EXCEPT !.artifacts = @ + 1]

SinkOutcomes == IF sink_fails THEN BOOLEAN ELSE {TRUE}
TranscriptOutcomes == IF sink_fails THEN {"ok", "messages", "actions"} ELSE {"ok"}

NoCall ==
    [tool |-> "none", owner |-> "none", args |-> None, status |-> "none",
     value |-> None, fn_calls |-> 0, fn_args |-> None, artifacts |-> 0,
     fn_status |-> "none"]

Call(t, a, r) ==
    [tool |-> t.kind, owner |-> t.owner, args |-> a, status |-> r.status,
     value |-> r.value, fn_calls |-> r.fn_calls, fn_args |-> r.fn_args,
     artifacts |-> r.artifacts, fn_status |-> r.fn_status]

(* ----------------------- Agent._get_instructions ----------------------- *)
_get_instructions(ts) ==
    [i \in 1..Len(ts) |->
        [task_id |-> numbered_tasks(ts)[i][1], task |-> i,
         status |-> numbered_tasks(ts)[i][2].status]]

(* --------------------------- Agent.run_async --------------------------- *)
any_pending(ts) == \E i \in 1..Len(ts) : ts[i].status = PENDING

loop_condition_nocap(ts, c, cap) == any_pending(ts)

loop_condition_nopending(ts, c, cap) == c < cap

loop_condition_offbyone(ts, c, cap) == any_pending(ts) /\ c <= cap

loop_condition_no_retry(ts, c, cap) == any_pending(ts) /\ c < cap /\ tool_errors = 0

loop_condition(ts, c, cap) == any_pending(ts) /\ c < cap

repeats_always(sa) == TRUE

repeats(sa) == ~sa

RECURSIVE completed_results_nonpending(_)
completed_results_nonpending(ts) ==
    IF ts = <<>> THEN <<>>
    ELSE (IF Head(ts).status # PENDING THEN <<Head(ts).result>> ELSE <<>>)
         \o completed_results_nonpending(Tail(ts))

RECURSIVE completed_results(_)
completed_results(ts) ==
    IF ts = <<>> THEN <<>>
    ELSE (IF Head(ts).status = COMPLETED THEN <<Head(ts).result>> ELSE <<>>)
         \o completed_results(Tail(ts))

(* lines 397-400: run_kwargs.pop("model", assistant.model or flow.model or default) *)
resolve_model(kw, am, fm) ==
    IF kw # Absent THEN kw
    ELSE IF am # NoModel THEN am
    ELSE IF fm # NoModel THEN fm
    ELSE assistant_model_default

(* one call of openai_run: the model is resolved, instructions and tools are
   rebuilt, the round-trip starts. The pop removes the key from the dict
   execute_openai_run was given; run_async sees that only if the task call
   handed over its own dict rather than a copy. *)
execute_openai_run(where) ==
    /\ model' = resolve_model(run_kwargs_model, assistant_model, flow_model)
    /\ run_kwargs_model' \in {run_kwargs_model, Absent}
    /\ instructions' = _get_instructions(tasks)
    /\ tools' = _get_tools(tasks, system_access, user_access)
    /\ LET after == shared_lists(flow_tools, agent_tools, assistant_tools,
                                 _get_tools(tasks, system_access, user_access))
       IN flow_tools' = after[1] /\ agent_tools' = after[2] /\ assistant_tools' = after[3]
    /\ layers' = wrap(layers)
    /\ turn_log' = <<"round_trip">>
    /\ turns' = turns + 1
    /\ pc' = where

transcripts_actions_first(how) ==
    IF how = "messages" THEN <<>>
    ELSE IF how = "actions" THEN <<"actions">>
    ELSE <<"actions", "messages">>

(* lines 413-424: the artifacts recorded after the round-trip (how: which one the sink refuses) *)
transcripts(how) ==
    IF how = "messages" THEN <<>>
    ELSE IF how = "actions" THEN <<"messages">>
    ELSE <<"messages", "actions">>

(* no orchestrator, no assistants among the tools, no TUI *)
OrchOff ==
    /\ orch_pc = "off"
    /\ orch_propagate = FALSE
    /\ orch_agent = "none"
    /\ orch_turns = 0
    /\ orch_failures = <<>>
    /\ events = <<>>

SubOff ==
    /\ sub_pc = "off"
    /\ sub_assistants = <<>>
    /\ TEMP_THREADS = [c \in SubConfigs |-> 0]
    /\ threads_made = 1
    /\ sub_tools = <<>>
    /\ sub_turns = 0
    /\ sub_calls = <<>>
    /\ runs = <<>>

TuiOff ==
    /\ tui_run = FALSE
    /\ tui_hold = "none"
    /\ hold = FALSE
    /\ _is_ready = FALSE
    /\ app = "new"
    /\ ctx = "off"
    /\ keys = <<>>

InitAgent ==
    /\ \E n \in 0..MaxTasks : tasks = [i \in 1..n |-> NewTask(i)]
    /\ system_access \in BOOLEAN
    /\ user_access \in BOOLEAN
    /\ entry \in {"run_async", "run_agent"}
    /\ entry = "run_agent" => Len(tasks) <= 1
    /\ pc = "init"
    /\ counter = 0
    /\ tools = <<>>
    /\ instructions = <<>>
    /\ layers = [o \in Owners |-> 0]
    /\ last_call = NoCall
    /\ turn_log = <<>>
    /\ result = <<>>
    /\ outcome = [kind |-> "none", value |-> None, message |-> NoMessage]
    /\ turns = 0
    /\ pending_after = <<>>
    /\ end_run_turn = 0
    /\ tool_errors = 0
    /\ model = NoModel
    /\ OrchOff
    /\ SubOff
    /\ TuiOff

NoModels ==
    /\ assistant_model = NoModel
    /\ flow_model = NoModel
    /\ run_kwargs_model = IF entry = "run_agent" THEN NoModel ELSE Absent

NoTools == flow_tools = <<>> /\ agent_tools = <<>> /\ assistant_tools = <<>>

(* an agent without tools of its own, an iteration budget of 0, 1 or
   MaxIterations, a working sink *)
Init ==
    /\ InitAgent
    /\ max_agent_iterations \in {0, 1, MaxIterations}
    /\ NoTools
    /\ NoModels
    /\ sink_fails = FALSE

(* agents whose flow, agent and assistant tool lists hold callables and
   pre-built FunctionTools *)
ToolInit ==
    /\ InitAgent
    /\ max_agent_iterations \in {0, 1}
    /\ \E s \in ToolSetups :
          flow_tools = s[1] /\ agent_tools = s[2] /\ assistant_tools = s[3]
    /\ NoModels
    /\ sink_fails = FALSE

(* an artifact sink that may raise *)
FaultInit ==
    /\ InitAgent
    /\ max_agent_iterations \in {0, 1}
    /\ flow_tools = <<Callable("flow")>> /\ agent_tools = <<>> /\ assistant_tools = <<>>
    /\ NoModels
    /\ sink_fails = TRUE

(* model names set on the assistant, on the flow and in the call of run *)
ModelInit ==
    /\ InitAgent
    /\ max_agent_iterations = 1
    /\ NoTools
    /\ sink_fails = FALSE
    /\ assistant_model \in {NoModel, "assistant-model"}
    /\ flow_model \in {NoModel, "flow-model"}
    /\ run_kwargs_model \in {Absent, NoModel, "call-model"}
    /\ entry = "run_agent" => run_kwargs_model # Absent

(* run_async, line 433: the first, unconditional turn *)
FirstTurn ==
    /\ pc = "init"
    /\ execute_openai_run("first")
    /\ UNCHANGED <<orchestrator, subagent, tui, tasks, agent_config, counter, last_call, result, outcome,
                   pending_after, end_run_turn, tool_errors>>

InRoundTrip == pc \in {"first", "repeat"}

(* run.run_async() has returned: the transcripts are recorded (lines 413-425)
   and control is back in run_async; after a repeat turn, counter += 1. An
   exception of the sink leaves execute_openai_run and run_async. *)
ReturnFromRoundTrip(ts, how) ==
    /\ turn_log' = turn_log \o transcripts(how)
    /\ last_call' = NoCall
    /\ pending_after' = Append(pending_after, any_pending(ts))
    /\ counter' = IF pc = "repeat" /\ how = "ok" THEN counter + 1 ELSE counter
    /\ pc' = IF how = "ok" THEN "loop" ELSE "raised"

(* the model invokes complete_task_<id> with a value of the result type; when
   the wrapper fails to log the call, the EndRun it would return is lost *)
InvokeComplete(i, v) ==
    /\ InRoundTrip
    /\ \E t \in {tools[k] : k \in 1..Len(tools)}, sink_ok \in SinkOutcomes,
          how \in TranscriptOutcomes :
          /\ t.kind = "complete" /\ t.task = i
          /\ tasks' = [tasks EXCEPT ![i].result = v, ![i].status = COMPLETED]
          /\ IF t.end_run /\ sink_ok
             THEN /\ end_run_turn' = turns
                  /\ ReturnFromRoundTrip(tasks', how)
             ELSE /\ how = "ok"
                  /\ last_call' = Call(t, v, modified_fn(depth(t),
                                     python_fn(v, IF t.end_run THEN EndRun ELSE None), sink_ok))
                  /\ UNCHANGED <<end_run_turn, pending_after, counter, pc, turn_log>>
    /\ UNCHANGED <<orchestrator, subagent, tui, run_kwargs_model, model, config, tools, instructions, layers, result, outcome, turns,
                   tool_errors>>

(* the model invokes fail_task_<id> with a message *)
InvokeFail(i, m) ==
    /\ InRoundTrip
    /\ \E t \in {tools[k] : k \in 1..Len(tools)}, sink_ok \in SinkOutcomes,
          how \in TranscriptOutcomes :
          /\ t.kind = "fail" /\ t.task = i
          /\ tasks' = [tasks EXCEPT ![i].error = m, ![i].status = FAILED]
          /\ IF t.end_run /\ sink_ok
             THEN /\ end_run_turn' = turns
                  /\ ReturnFromRoundTrip(tasks', how)
             ELSE /\ how = "ok"
                  /\ last_call' = Call(t, None, modified_fn(depth(t),
                                     python_fn(None, IF t.end_run THEN EndRun ELSE None), sink_ok))
                  /\ UNCHANGED <<end_run_turn, pending_after, counter, pc, turn_log>>
    /\ UNCHANGED <<orchestrator, subagent, tui, run_kwargs_model, model, config, tools, instructions, layers, result, outcome, turns,
                   tool_errors>>

(* the model invokes a complete tool with a value that is not of the result
   type: the tool raises, the error is reported to the model, no task changes *)
InvokeFailing ==
    /\ InRoundTrip
    /\ tool_errors < MaxToolErrors
    /\ \E t \in {tools[k] : k \in 1..Len(tools)} :
          /\ t.kind = "complete"
          /\ last_call' = Call(t, None, modified_fn(depth(t),
                                 [python_fn(None, None) EXCEPT !.status = "error",
                                                               !.fn_status = "raised"],
                                 TRUE))
    /\ tool_errors' = tool_errors + 1
    /\ UNCHANGED <<orchestrator, subagent, tui, run_kwargs_model, model, tasks, config, pc, counter, tools, instructions, layers, turn_log,
                   result, outcome, turns, pending_after, end_run_turn>>

(* the model invokes a function tool of the flow, the agent or the assistant,
   or talk_to_human, with arguments a *)
InvokeTool(k, a) ==
    /\ InRoundTrip
    /\ k \in 1..Len(tools)
    /\ tools[k].kind \in {"callable", "function_tool", "talk_to_human"}
    /\ \E sink_ok \in SinkOutcomes :
          last_call' = Call(tools[k], a,
                            modified_fn(depth(tools[k]), python_fn(a, UserFn(a)), sink_ok))
    /\ UNCHANGED <<orchestrator, subagent, tui, run_kwargs_model, model, tasks, config, pc, counter, tools, instructions, layers, turn_log,
                   result, outcome, turns, pending_after, end_run_turn, tool_errors>>

(* the model invokes end_run: the EndRun() it returns ends the round-trip *)
InvokeEndRun ==
    /\ InRoundTrip
    /\ HasTool(end_run_tool)
    /\ \E sink_ok \in SinkOutcomes, how \in TranscriptOutcomes :
          /\ IF sink_ok
             THEN ReturnFromRoundTrip(tasks, how)
             ELSE /\ how = "ok"
                  /\ last_call' = Call(end_run_tool, None,
                                       modified_fn(1, python_fn(None, EndRun), sink_ok))
                  /\ UNCHANGED <<pending_after, counter, pc, turn_log>>
    /\ UNCHANGED <<orchestrator, subagent, tui, run_kwargs_model, model, tasks, config, tools, instructions, layers, result, outcome, turns,
                   end_run_turn, tool_errors>>

(* the model stops calling tools: run.run_async() returns *)
RoundTripReturns ==
    /\ InRoundTrip
    /\ \E how \in TranscriptOutcomes : ReturnFromRoundTrip(tasks, how)
    /\ UNCHANGED <<orchestrator, subagent, tui, run_kwargs_model, model, tasks, config, tools, instructions, layers, result,
                   outcome, turns, end_run_turn, tool_errors>>

(* run_async, lines 437-444: one more turn (turns is capped at MaxTurns, which
   the loop itself never reaches: turns <= 1 + max_agent_iterations) *)
RepeatTurn ==
    /\ pc = "loop"
    /\ turns < MaxTurns
    /\ repeats(system_access)
    /\ loop_condition(tasks, counter, max_agent_iterations)
    /\ execute_openai_run("repeat")
    /\ UNCHANGED <<orchestrator, subagent, tui, tasks, agent_config, counter, last_call, result, outcome,
                   pending_after, end_run_turn, tool_errors>>

(* run_async, lines 446-448: collect the results and return *)
Return ==
    /\ pc = "loop"
    /\ ~(repeats(system_access) /\ loop_condition(tasks, counter, max_agent_iterations))
    /\ result' = completed_results(tasks)
    /\ pc' = "done"
    /\ UNCHANGED <<orchestrator, subagent, tui, run_kwargs_model, model, tasks, config, counter, tools, instructions, layers, last_call,
                   turn_log, outcome, turns, pending_after, end_run_turn, tool_errors>>

(* ------------------------------ run_agent ------------------------------ *)
run_agent_outcome_any(ts) ==
    IF Len(ts) = 0 THEN [kind |-> "returned_none", value |-> None, message |-> NoMessage]
    ELSE IF ts[1].status # FAILED
         THEN [kind |-> "returned", value |-> ts[1].result, message |-> NoMessage]
         ELSE [kind |-> "raised", value |-> None, message |-> ts[1].error]

run_agent_outcome(ts) ==
    IF Len(ts) = 0 THEN [kind |-> "returned_none", value |-> None, message |-> NoMessage]
    ELSE IF ts[1].status = COMPLETED
         THEN [kind |-> "returned", value |-> ts[1].result, message |-> NoMessage]
         ELSE IF ts[1].status = FAILED
              THEN [kind |-> "raised", value |-> None, message |-> ts[1].error]
              ELSE [kind |-> "returned_none", value |-> None, message |-> NoMessage]

(* run_agent, lines 564-568, after agent.run returned *)
RunAgentFinish ==
    /\ pc = "done"
    /\ entry = "run_agent"
    /\ outcome' = run_agent_outcome(tasks)
    /\ pc' = "finished"
    /\ UNCHANGED <<orchestrator, subagent, tui, run_kwargs_model, model, tasks, config, counter, tools, instructions, layers, last_call,
                   turn_log, result, turns, pending_after, end_run_turn, tool_errors>>

Next ==
    \/ FirstTurn
    \/ \E i \in 1..MaxTasks, v \in Results : i <= Len(tasks) /\ InvokeComplete(i, v)
    \/ \E i \in 1..MaxTasks, m \in Messages : i <= Len(tasks) /\ InvokeFail(i, m)
    \/ InvokeFailing
    \/ \E k \in 1..(2 * MaxTasks + 4), a \in Args : InvokeTool(k, a)
    \/ InvokeEndRun
    \/ RoundTripReturns
    \/ RepeatTurn
    \/ Return
    \/ RunAgentFinish

Spec == Init /\ [][Next]_vars

(* every round-trip returns, and run_async / run_agent keep executing *)
FairSpec ==
    /\ Spec
    /\ WF_vars(FirstTurn)
    /\ WF_vars(RoundTripReturns)
    /\ WF_vars(RepeatTurn)
    /\ WF_vars(Return)
    /\ WF_vars(RunAgentFinish)

ToolSpec == ToolInit /\ [][Next]_vars

FaultSpec == FaultInit /\ [][Next]_vars

ModelSpec == ModelInit /\ [][Next]_vars

(* ------------------- orchestrator and its events ----------------------- *)
OrchAgents == {"agent-1", "agent-2"}
OrchErrors == {"boom"}

OrchestratorStart ==
    [event |-> "orchestrator-start", persist |-> FALSE, agent |-> "none", error |-> NoMessage]
OrchestratorEnd ==
    [event |-> "orchestrator-end", persist |-> FALSE, agent |-> "none", error |-> NoMessage]
OrchestratorError(e) ==
    [event |-> "orchestrator-error", persist |-> FALSE, agent |-> "none", error |-> e]
AgentTurnStart(a) ==
    [event |-> "agent-turn-start", persist |-> FALSE, agent |-> a, error |-> NoMessage]
AgentTurnEnd(a) ==
    [event |-> "agent-turn-end", persist |-> FALSE, agent |-> a, error |-> NoMessage]

failed_turn_events_no_end(a, e) == <<OrchestratorError(e)>>

(* the events of a turn of agent a that raised e *)
failed_turn_events(a, e) == <<AgentTurnEnd(a), OrchestratorError(e)>>

(* the agent part of the state while only the orchestrator is looked at *)
AgentIdle ==
    /\ tasks = <<>>
    /\ system_access = FALSE /\ user_access = FALSE
    /\ max_agent_iterations = 0
    /\ entry = "run_async"
    /\ NoTools /\ NoModels /\ sink_fails = FALSE
    /\ pc = "idle"
    /\ counter = 0 /\ tools = <<>> /\ instructions = <<>>
    /\ layers = [o \in Owners |-> 0]
    /\ last_call = NoCall /\ turn_log = <<>> /\ result = <<>>
    /\ outcome = [kind |-> "none", value |-> None, message |-> NoMessage]
    /\ turns = 0 /\ pending_after = <<>> /\ end_run_turn = 0 /\ tool_errors = 0
    /\ model = NoModel

agent_state == <<tasks, config, run_kwargs_model, model, pc, counter, tools,
                 instructions, layers, last_call, turn_log, result, outcome, turns,
                 pending_after, end_run_turn, tool_errors>>

OrchInit ==
    /\ AgentIdle
    /\ SubOff
    /\ TuiOff
    /\ orch_pc = "init"
    /\ orch_propagate \in BOOLEAN
    /\ orch_agent = "none"
    /\ orch_turns = 0
    /\ orch_failures = <<>>
    /\ events = <<>>

OrchStart ==
    /\ orch_pc = "init"
    /\ events' = Append(events, OrchestratorStart)
    /\ orch_pc' = "loop"
    /\ UNCHANGED <<agent_state, subagent, tui, orch_propagate, orch_agent, orch_turns, orch_failures>>

OrchTurnStart(a) ==
    /\ orch_pc = "loop"
    /\ orch_turns < MaxOrchTurns
    /\ events' = Append(events, AgentTurnStart(a))
    /\ orch_agent' = a
    /\ orch_turns' = orch_turns + 1
    /\ orch_pc' = "turn"
    /\ UNCHANGED <<agent_state, subagent, tui, orch_propagate, orch_failures>>

OrchTurnEnd ==
    /\ orch_pc = "turn"
    /\ events' = Append(events, AgentTurnEnd(orch_agent))
    /\ orch_pc' = "loop"
    /\ UNCHANGED <<agent_state, subagent, tui, orch_propagate, orch_agent, orch_turns, orch_failures>>

(* the turn raises: the turn is over, the failure becomes an event, and the
   loop goes on with the next turn unless the failure is to be propagated *)
OrchTurnFails(e) ==
    /\ orch_pc = "turn"
    /\ events' = events \o failed_turn_events(orch_agent, e)
    /\ orch_failures' = Append(orch_failures, e)
    /\ orch_pc' = IF orch_propagate THEN "failed" ELSE "loop"
    /\ UNCHANGED <<agent_state, subagent, tui, orch_propagate, orch_agent, orch_turns>>

(* the loop is left, after the last turn or early *)
OrchEnd ==
    /\ orch_pc = "loop"
    /\ events' = Append(events, OrchestratorEnd)
    /\ orch_pc' = "done"
    /\ UNCHANGED <<agent_state, subagent, tui, orch_propagate, orch_agent, orch_turns, orch_failures>>

OrchNext ==
    \/ OrchStart
    \/ \E a \in OrchAgents : OrchTurnStart(a)
    \/ OrchTurnEnd
    \/ \E e \in OrchErrors : OrchTurnFails(e)
    \/ OrchEnd

OrchSpec == OrchInit /\ [][OrchNext]_vars

(* ------------------- Agent.as_tool: sub-agent tools -------------------- *)
setdefault_overwrites(d, key, new) == [d EXCEPT ![key] = new]

(* dict.setdefault: the value of an existing key stays *)
setdefault(d, key, new) == IF d[key] # 0 THEN d ELSE [d EXCEPT ![key] = new]

(* line 404: thread = run_kwargs.pop("thread", self.flow.thread) *)
run_thread(kw, flow_thread) == IF kw # 0 THEN kw ELSE flow_thread

_run_on_flow_thread(a, thread, sa, ts, cap) ==
    <<[assistant |-> a, thread |-> run_thread(0, FlowThread)]>>

_run_until_done(a, thread, sa, ts, cap) ==
    [j \in 1..(1 + (IF repeats(sa) /\ any_pending(ts) THEN cap ELSE 0)) |->
        [assistant |-> a, thread |-> run_thread(thread, FlowThread)]]

(* lines 453-456, the tool's function: one call of execute_openai_run of the
   sub-agent (assistant a, the calling agent's system_access sa and tasks ts)
   with run_kwargs = dict(thread=thread); the Runs it makes *)
_run(a, thread, sa, ts, cap) ==
    <<[assistant |-> a, thread |-> run_thread(thread, FlowThread)]>>

(* lines 342-345 with line 451, over the assistants cs of the tool list: every
   as_tool constructs a Thread and looks its assistant up in TEMP_THREADS.
   st = [tools, threads, made] *)
RECURSIVE as_tools(_, _)
as_tools(cs, st) ==
    IF cs = <<>> THEN st
    ELSE LET d == setdefault(st.threads, Head(cs), st.made + 1)
         IN as_tools(Tail(cs),
                     [tools |-> Append(st.tools, [assistant |-> Head(cs),
                                                  thread |-> d[Head(cs)]]),
                      threads |-> d,
                      made |-> st.made + 1])

(* the agent part of the state of an agent that holds assistants as tools *)
SubAgentInit ==
    /\ \E n \in 0..1 : tasks = [i \in 1..n |-> NewTask(i)]
    /\ system_access \in BOOLEAN /\ user_access = FALSE
    /\ max_agent_iterations \in {0, 1}
    /\ entry = "run_async"
    /\ NoTools /\ NoModels /\ sink_fails = FALSE
    /\ pc = "idle"
    /\ counter = 0 /\ tools = <<>> /\ instructions = <<>>
    /\ layers = [o \in Owners |-> 0]
    /\ last_call = NoCall /\ turn_log = <<>> /\ result = <<>>
    /\ outcome = [kind |-> "none", value |-> None, message |-> NoMessage]
    /\ turns = 0 /\ pending_after = <<>> /\ end_run_turn = 0 /\ tool_errors = 0
    /\ model = NoModel

SubInit ==
    /\ SubAgentInit
    /\ OrchOff
    /\ TuiOff
    /\ sub_pc = "idle"
    /\ sub_assistants \in UNION {[1..n -> SubConfigs] : n \in 1..2}
    /\ TEMP_THREADS = [c \in SubConfigs |-> 0]
    /\ threads_made = 1
    /\ sub_tools = <<>>
    /\ sub_turns = 0
    /\ sub_calls = <<>>
    /\ runs = <<>>

(* a turn of the agent starts: _get_tools makes a tool of every assistant *)
SubAssemble ==
    /\ sub_pc = "idle"
    /\ sub_turns < MaxSubTurns
    /\ LET st == as_tools(sub_assistants,
                          [tools |-> <<>>, threads |-> TEMP_THREADS, made |-> threads_made])
       IN /\ sub_tools' = st.tools
          /\ TEMP_THREADS' = st.threads
          /\ threads_made' = st.made
    /\ sub_turns' = sub_turns + 1
    /\ sub_pc' = "round_trip"
    /\ UNCHANGED <<agent_state, orchestrator, tui, sub_assistants, sub_calls, runs>>

(* the model invokes the k-th sub-agent tool: the sub-agent, a copy of the agent
   with the assistant replaced, runs; its run-turn assembles its own tools *)
SubInvoke(k) ==
    /\ sub_pc = "round_trip"
    /\ k \in 1..Len(sub_tools)
    /\ Len(sub_calls) < MaxSubCalls
    /\ sub_calls' = Append(sub_calls, [assistant |-> sub_tools[k].assistant, turn |-> sub_turns])
    /\ LET made == _run(sub_tools[k].assistant, sub_tools[k].thread,
                        system_access, tasks, max_agent_iterations)
           st == as_tools(sub_assistants,
                          [tools |-> <<>>, threads |-> TEMP_THREADS, made |-> threads_made])
       IN /\ runs' = runs \o [j \in 1..Len(made) |->
                                [assistant |-> made[j].assistant, thread |-> made[j].thread,
                                 call |-> Len(sub_calls) + 1]]
          /\ TEMP_THREADS' = st.threads
          /\ threads_made' = st.made
    /\ UNCHANGED <<agent_state, orchestrator, tui, sub_pc, sub_assistants, sub_tools, sub_turns>>

(* the round-trip of the agent returns *)
SubTurnEnd ==
    /\ sub_pc = "round_trip"
    /\ sub_pc' = "idle"
    /\ sub_tools' = <<>>
    /\ UNCHANGED <<agent_state, orchestrator, tui, sub_assistants, TEMP_THREADS, threads_made,
                   sub_turns, sub_calls, runs>>

SubNext ==
    \/ SubAssemble
    \/ \E k \in 1..2 : SubInvoke(k)
    \/ SubTurnEnd

SubSpec == SubInit /\ [][SubNext]_vars

(* ------------------------ TUIApp.run_context --------------------------- *)
(* app.py lines 73-76: exit() releases the hold, drops readiness, stops the app *)
exit ==
    /\ hold' = FALSE
    /\ _is_ready' = FALSE
    /\ app' = "exited"

holding_never(h) == FALSE

(* line 69: while self.hold *)
holding(h) == h

(* line 58: while not self._is_ready *)
not_ready(r) == ~r

TuiInit ==
    /\ AgentIdle
    /\ OrchOff
    /\ SubOff
    /\ tui_run \in BOOLEAN
    /\ tui_hold \in {"true", "false", "none"}
    /\ hold = FALSE
    /\ _is_ready = FALSE
    /\ app = "new"
    /\ ctx = "enter"
    /\ keys = <<>>

(* lines 49-56: with run, the app is started as a task of the event loop *)
CtxEnter ==
    /\ ctx = "enter"
    /\ IF tui_run
       THEN app' = "starting" /\ ctx' = "wait_ready"
       ELSE app' = app /\ ctx' = "body"
    /\ UNCHANGED <<agent_state, orchestrator, subagent, tui_run, tui_hold, hold, _is_ready, keys>>

(* lines 87-93: the app mounts *)
OnMount ==
    /\ app = "starting"
    /\ app' = "running"
    /\ _is_ready' = TRUE
    /\ UNCHANGED <<agent_state, orchestrator, subagent, tui_run, tui_hold, hold, ctx, keys>>

(* lines 58-64: the poll finds the app ready, hold is set, the body is entered *)
CtxReady ==
    /\ ctx = "wait_ready"
    /\ ~not_ready(_is_ready)
    /\ hold' = IF tui_hold = "none" THEN hold ELSE (tui_hold = "true")
    /\ ctx' = "body"
    /\ UNCHANGED <<agent_state, orchestrator, subagent, tui_run, tui_hold, _is_ready, app, keys>>

(* lines 66-68: the body of the context is left *)
CtxBodyEnds ==
    /\ ctx = "body"
    /\ ctx' = IF tui_run THEN "wait_hold" ELSE "left"
    /\ UNCHANGED <<agent_state, orchestrator, subagent, tui_run, tui_hold, hold, _is_ready, app, keys>>

(* lines 69-71: the poll finds hold false and exits the app *)
CtxExit ==
    /\ ctx = "wait_hold"
    /\ ~holding(hold)
    /\ exit
    /\ ctx' = "left"
    /\ UNCHANGED <<agent_state, orchestrator, subagent, tui_run, tui_hold, keys>>

(* lines 78-79, key h of the running app *)
action_toggle_hold ==
    /\ app = "running"
    /\ Len(keys) < MaxKeys
    /\ hold' = ~hold
    /\ keys' = Append(keys, IF hold THEN "h_off" ELSE "h_on")
    /\ UNCHANGED <<agent_state, orchestrator, subagent, tui_run, tui_hold, _is_ready, app, ctx>>

(* line 25, key q of the running app: quit calls exit() *)
action_quit ==
    /\ app = "running"
    /\ Len(keys) < MaxKeys
    /\ exit
    /\ keys' = Append(keys, "q")
    /\ UNCHANGED <<agent_state, orchestrator, subagent, tui_run, tui_hold, ctx>>

TuiNext ==
    \/ CtxEnter
    \/ OnMount
    \/ CtxReady
    \/ CtxBodyEnds
    \/ CtxExit
    \/ action_toggle_hold
    \/ action_quit

TuiSpec == TuiInit /\ [][TuiNext]_vars

(* the event loop runs the app's mount and the context's polls (every 10 ms);
   the body of the context terminates; the user owes no key *)
TuiFairSpec ==
    /\ TuiSpec
    /\ WF_vars(CtxEnter) /\ WF_vars(OnMount) /\ WF_vars(CtxReady)
    /\ WF_vars(CtxBodyEnds) /\ WF_vars(CtxExit)

(* ============================== claims ================================= *)
Returned == pc \in {"done", "finished"}

(* C1: once a task is COMPLETED or FAILED, its status, result and error never
   change again during the run (no COMPLETED <-> FAILED), although every turn's
   tool list again holds the task's complete and fail tools. *)
C1_TerminalStatusIsFinal ==
    [][\A i \in 1..Len(tasks) :
          tasks[i].status # PENDING => tasks'[i] = tasks[i]]_vars

(* C2: with system_access = false a repeat turn starts only when some task is
   PENDING and counter < max_agent_iterations; once a turn k ends with no task
   PENDING the run has exactly k turns, whatever max_agent_iterations is. *)
C2_RepeatOnlyWhilePendingAndBudget ==
    /\ [](~system_access =>
            \A k \in 1..Len(pending_after) : ~pending_after[k] => turns = k)
    /\ [][(turns >= 1 /\ turns' = turns + 1) =>
            (~system_access /\ any_pending(tasks) /\ counter < max_agent_iterations)]_vars

C2_Witness ==
    /\ pc = "done" /\ ~system_access /\ Len(tasks) = 2
    /\ \A i \in 1..2 : tasks[i].status = COMPLETED
    /\ turns = 1 /\ max_agent_iterations = MaxIterations

(* C3: with system_access = false and tasks that are never resolved, the run has
   exactly 1 + max_agent_iterations turns and then returns, without raising,
   the empty list with the tasks still PENDING; no run ever has more than
   1 + max_agent_iterations turns. *)
C3_BudgetExhaustedStopsSilently ==
    /\ turns <= 1 + max_agent_iterations
    /\ (Returned /\ ~system_access /\ Len(tasks) >= 1
        /\ (\A i \in 1..Len(tasks) : tasks[i].status = PENDING))
       => /\ turns = 1 + max_agent_iterations
          /\ counter = max_agent_iterations
          /\ result = <<>>
          /\ outcome.kind # "raised"

C3_Witness ==
    /\ pc = "done" /\ ~system_access /\ Len(tasks) = 1
    /\ tasks[1].status = PENDING
    /\ max_agent_iterations = 3 /\ turns = 4 /\ result = <<>>

(* C4: with system_access = true a run performs exactly one turn, whatever the
   tasks, their statuses after the turn and max_agent_iterations. *)
C4_SystemAccessOneTurn ==
    system_access => (turns <= 1 /\ (Returned => turns = 1))

C4_Witness ==
    /\ pc = "done" /\ system_access /\ Len(tasks) = 2
    /\ tasks[1].status = PENDING /\ tasks[2].status = COMPLETED
    /\ max_agent_iterations >= 1 /\ turns = 1

(* C5: the returned list holds exactly the results of the tasks that are
   COMPLETED at return, in task order: its length is the number of COMPLETED
   tasks and the result of the r-th COMPLETED task is its r-th element. *)
C5_ResultIsCompletedResults ==
    Returned =>
        LET done == {i \in 1..Len(tasks) : tasks[i].status = COMPLETED}
        IN /\ Len(result) = Cardinality(done)
           /\ \A i \in done :
                 result[Cardinality({j \in done : j <= i})] = tasks[i].result

C5_Witness ==
    /\ pc = "done" /\ Len(tasks) = 2
    /\ tasks[1].status = FAILED /\ tasks[2].status = COMPLETED
    /\ result = <<tasks[2].result>>

(* C6: after a complete or fail tool created with end_run = true has been
   invoked in some turn, no further turn is started. *)
C6_EndRunStopsTheLoop ==
    end_run_turn # 0 => turns = end_run_turn

C6_Witness ==
    /\ pc = "done" /\ end_run_turn = 1 /\ turns = 1
    /\ counter < max_agent_iterations

(* C7: in every tool list, each complete and each fail tool carries the same
   end_run flag, which is true iff system_access is false and the agent has
   exactly one task, whatever the tasks' statuses. *)
C7_EarlyEndRunFlag ==
    \A k \in 1..Len(tools) :
        tools[k].kind \in {"complete", "fail"} =>
            (tools[k].end_run <=> (~system_access /\ Len(tasks) = 1))

C7_Witness ==
    /\ pc = "repeat" /\ ~system_access /\ Len(tasks) = 1
    /\ \E k \in 1..Len(tools) : tools[k].kind = "fail" /\ tools[k].end_run

(* C8: the tool list of a turn holds the end_run tool iff the agent has no
   tasks, and a task-less agent with system_access = true runs exactly one turn. *)
C8_EndRunToolIffNoTasks ==
    /\ turns >= 1 => (HasTool(end_run_tool) <=> Len(tasks) = 0)
    /\ (Len(tasks) = 0 /\ system_access) => (turns <= 1 /\ (Returned => turns = 1))

C8_Witness ==
    /\ pc = "done" /\ Len(tasks) = 0 /\ system_access
    /\ HasTool(end_run_tool) /\ turns = 1

(* C9: run_agent with a task returns the task's result iff the task ended
   COMPLETED, raises with the task's error iff it ended FAILED, and returns
   None when it is still PENDING (without system_access: only after the
   iteration budget is used up). *)
C9_RunAgentOutcome ==
    (pc = "finished" /\ Len(tasks) = 1) =>
        /\ tasks[1].status = COMPLETED =>
              (outcome.kind = "returned" /\ outcome.value = tasks[1].result)
        /\ tasks[1].status = FAILED =>
              (outcome.kind = "raised" /\ outcome.message = tasks[1].error)
        /\ tasks[1].status = PENDING =>
              (outcome.kind = "returned_none"
               /\ (~system_access => counter = max_agent_iterations))

C9_Witness ==
    /\ pc = "finished" /\ Len(tasks) = 1 /\ tasks[1].status = FAILED
    /\ outcome.kind = "raised" /\ outcome.message = "unsolvable"

(* C10: when every round-trip returns, every run reaches DONE, whatever the
   model does inside the round-trips. *)
C10_RunTerminates == <>(pc = "done")

C10_Witness ==
    /\ pc = "done" /\ ~system_access /\ tool_errors > 0
    /\ any_pending(tasks) /\ counter = max_agent_iterations /\ counter > 0

FunctionTools == {"callable", "function_tool", "talk_to_human"}

(* C11: invoking a wrapped function tool with arguments A returns what the
   function returns for A, calls the function exactly once with exactly A, and
   adds exactly one logged artifact. *)
C11_WrappedToolEquivalent ==
    last_call.tool \in FunctionTools =>
        /\ last_call.status = "returned"
        /\ last_call.value = UserFn(last_call.args)
        /\ last_call.fn_calls = 1
        /\ last_call.fn_args = last_call.args
        /\ last_call.artifacts = 1

(* C12: orchestrator-start is the first event; every agent-turn-start is
   directly followed by the agent-turn-end of the same agent once the turn is
   over, and every agent-turn-end directly follows such a start; the
   orchestrator-error events carry the failures of the loop, in order; and
   orchestrator-end is emitted once, as the last event, when the loop is left. *)
C12_EventOrder ==
    LET n == Len(events)
        errs == SelectSeq(events, LAMBDA ev : ev.event = "orchestrator-error")
    IN /\ n >= 1 => events[1] = OrchestratorStart
       /\ \A k \in 2..n : events[k].event # "orchestrator-start"
       /\ \A k \in 1..n :
             events[k].event = "agent-turn-start" =>
                 IF k = n THEN orch_pc = "turn" /\ orch_agent = events[k].agent
                 ELSE events[k + 1] = AgentTurnEnd(events[k].agent)
       /\ \A k \in 1..n :
             events[k].event = "agent-turn-end" =>
                 k > 1 /\ events[k - 1] = AgentTurnStart(events[k].agent)
       /\ Len(errs) = Len(orch_failures)
       /\ \A k \in 1..Len(errs) : errs[k].error = orch_failures[k]
       /\ \A k \in 1..n : events[k].event = "orchestrator-end" => (k = n /\ orch_pc = "done")
       /\ orch_pc = "done" => (n >= 1 /\ events[n] = OrchestratorEnd)

C12_Witness ==
    /\ orch_pc = "done" /\ Len(events) = 9 /\ orch_failures = <<"boom">>
    /\ \E k \in 1..Len(events) : events[k] = AgentTurnStart("agent-1")
    /\ \E k \in 1..Len(events) : events[k] = AgentTurnStart("agent-2")

(* C13: a complete-tool invocation with a value that is not of the result type
   fails as a tool call and changes no task (a PENDING task stays PENDING with
   no result); the run is not aborted: it stays in the round-trip and stops
   with a task PENDING only when the iteration budget is used up. *)
C13_InvalidResultIsToolError ==
    /\ [][tool_errors' > tool_errors =>
            (tasks' = tasks /\ pc' = pc /\ last_call'.status = "error")]_vars
    /\ [](pc # "raised")
    /\ []((Returned /\ ~system_access /\ any_pending(tasks)) =>
            counter = max_agent_iterations)

C13_Witness ==
    /\ pc = "done" /\ ~system_access /\ tool_errors > 0
    /\ Len(tasks) = 1 /\ tasks[1].status = COMPLETED /\ tasks[1].result = 5
    /\ turns = 2 /\ pending_after[1]

(* C14: in every turn the tasks are numbered 1..N in list order, and the task_id
   of a task's complete and fail tools is the number under which that task is
   listed in the turn's instructions. *)
C14_TaskNumbering ==
    turns >= 1 =>
        /\ Len(instructions) = Len(tasks)
        /\ \A i \in 1..Len(instructions) :
              instructions[i].task_id = i /\ instructions[i].task = i
        /\ \A k \in 1..Len(tools) :
              tools[k].kind \in {"complete", "fail"} =>
                  \E i \in 1..Len(instructions) :
                      /\ instructions[i].task = tools[k].task
                      /\ instructions[i].task_id = tools[k].task_id

C14_Witness ==
    /\ pc = "repeat" /\ turns = 2 /\ Len(tasks) = 2
    /\ instructions[2].task_id = 2
    /\ \E k \in 1..Len(tools) :
          tools[k].kind = "fail" /\ tools[k].task = 2 /\ tools[k].task_id = 2

(* C15: the tool list of a turn is the flow's tools, the agent's tools, the
   assistant's tools, end_run iff there are no tasks, a complete and a fail tool
   per task in task order, and talk_to_human iff user_access, in this order. *)
C15_ToolListOrder ==
    turns >= 1 =>
        LET nf == Len(flow_tools)
            na == Len(agent_tools)
            nb == nf + na + Len(assistant_tools)
            e  == IF Len(tasks) = 0 THEN 1 ELSE 0
            h  == IF user_access THEN 1 ELSE 0
        IN /\ Len(tools) = nb + e + 2 * Len(tasks) + h
           /\ \A k \in 1..nf : tools[k] = flow_tools[k]
           /\ \A k \in 1..na : tools[nf + k] = agent_tools[k]
           /\ \A k \in 1..Len(assistant_tools) : tools[nf + na + k] = assistant_tools[k]
           /\ e = 1 => tools[nb + 1] = end_run_tool
           /\ e = 0 => ~HasTool(end_run_tool)
           /\ \A i \in 1..Len(tasks) :
                 /\ tools[nb + e + 2 * i - 1].kind = "complete"
                 /\ tools[nb + e + 2 * i - 1].task = i
                 /\ tools[nb + e + 2 * i].kind = "fail"
                 /\ tools[nb + e + 2 * i].task = i
           /\ h = 1 => tools[Len(tools)] = talk_to_human
           /\ h = 0 => ~HasTool(talk_to_human)

C15_Witness ==
    /\ InRoundTrip /\ user_access /\ Len(tasks) = 2
    /\ Len(flow_tools) = 1 /\ Len(agent_tools) = 1 /\ Len(assistant_tools) = 1
    /\ Len(tools) = 8

(* C18: a turn performs one round-trip and then records one `messages` and one
   `actions` artifact, in this order; instructions and tools are rebuilt at the
   start of every turn from the task state of that moment. *)
C18_OneRoundTripThenTranscripts ==
    /\ [](InRoundTrip => turn_log = <<"round_trip">>)
    /\ [](pc \in {"loop", "done", "finished"} =>
            turn_log = <<"round_trip", "messages", "actions">>)
    /\ [][turns' = turns + 1 =>
            /\ Len(instructions') = Len(tasks)
            /\ \A i \in 1..Len(tasks) : instructions'[i].status = tasks[i].status
            /\ tools' = _get_tools(tasks, system_access, user_access)]_vars

C18_Witness ==
    /\ pc = "loop" /\ turns = 2 /\ Len(tasks) = 2
    /\ instructions[1].status = COMPLETED /\ instructions[2].status = PENDING
    /\ turn_log = <<"round_trip", "messages", "actions">>

(* C19: after any number of turns, one invocation of a function tool calls the
   function once and logs one artifact: no tool carries more than one logging
   wrapper. *)
C19_WrapperNotStacked ==
    /\ \A o \in Owners : layers[o] <= 1
    /\ last_call.status = "returned" =>
          (last_call.fn_calls = 1 /\ last_call.artifacts = 1)

(* C20: a failure of the artifact sink neither aborts the run nor turns a tool
   invocation whose function returned into a failed tool call. *)
C20_SinkFailureHarmless ==
    /\ pc # "raised"
    /\ last_call.fn_status = "returned" => last_call.status = "returned"

(* C16: the model of a turn is the assistant's model if set, otherwise the
   flow's model if set, otherwise the process default. *)
C16_ModelPrecedence ==
    turns >= 1 =>
        model = IF assistant_model # NoModel THEN assistant_model
                ELSE IF flow_model # NoModel THEN flow_model
                ELSE assistant_model_default

(* C21: no step of a run adds, removes or reorders the tasks of the agent, and
   no step (tool assembly included) changes the tool lists of the flow, the
   agent or the assistant: the per-turn tools go to the assembled list only. *)
C21_ListsFixed ==
    [][/\ Len(tasks') = Len(tasks)
       /\ \A i \in 1..Len(tasks) : tasks'[i].id = tasks[i].id
       /\ flow_tools' = flow_tools
       /\ agent_tools' = agent_tools
       /\ assistant_tools' = assistant_tools]_vars

C21_Witness ==
    /\ pc = "done" /\ turns = 2
    /\ Len(tasks) = 2 /\ tasks[1].id = 1 /\ tasks[2].id = 2
    /\ tasks[2].status = COMPLETED /\ tasks[1].status = FAILED
    /\ Len(flow_tools) = 1 /\ Len(agent_tools) = 1 /\ Len(assistant_tools) = 1
    /\ Len(tools) = 8

(* C22: every invocation of a sub-agent tool makes exactly one Run of the
   sub-agent, whatever system_access and the pending tasks are; the Run is on
   the thread TEMP_THREADS holds for the assistant, never on the flow's thread;
   the tools and Runs of one assistant configuration use one thread in every
   turn, and different configurations use different threads. *)
C22_SubAgentOneTurnOwnThread ==
    /\ \A c \in 1..Len(sub_calls) :
          \E j \in 1..Len(runs) :
             /\ runs[j].call = c /\ runs[j].assistant = sub_calls[c].assistant
             /\ \A i \in 1..Len(runs) : runs[i].call = c => i = j
    /\ \A j \in 1..Len(runs) :
          /\ runs[j].thread # FlowThread
          /\ runs[j].thread = TEMP_THREADS[runs[j].assistant]
    /\ \A i, j \in 1..Len(runs) :
          (runs[i].assistant = runs[j].assistant) <=> (runs[i].thread = runs[j].thread)
    /\ \A k \in 1..Len(sub_tools) :
          /\ sub_tools[k].thread # FlowThread
          /\ sub_tools[k].thread = TEMP_THREADS[sub_tools[k].assistant]

C22_Witness ==
    /\ sub_turns = 2 /\ Len(sub_calls) = 2 /\ Len(runs) = 2
    /\ sub_calls[1].turn = 1 /\ sub_calls[2].turn = 2
    /\ runs[1].assistant = "analyst" /\ runs[2].assistant = "analyst"
    /\ runs[1].thread = runs[2].thread
    /\ ~system_access /\ any_pending(tasks) /\ max_agent_iterations = 1
    /\ sub_assistants = <<"writer", "analyst">>

(* the last key toggled hold to false *)
ToggledOff == keys # <<>> /\ keys[Len(keys)] = "h_off"

(* what C23 says apart from the exit after a toggle: with run, the body is
   entered only when the app is mounted and ready; the context exits the app
   only when hold is false, and an exited app has hold false and _is_ready
   false; without run, the context neither waits nor touches the app. *)
TuiSafety ==
    /\ [][(tui_run /\ ctx # "body" /\ ctx' = "body") => (_is_ready /\ app = "running")]_vars
    /\ [][(ctx = "wait_hold" /\ ctx' = "left") => (~hold /\ app' = "exited")]_vars
    /\ [][(app # "exited" /\ app' = "exited") => (~hold' /\ ~_is_ready')]_vars
    /\ [](app = "exited" => (~hold /\ ~_is_ready))
    /\ [](tui_run => ctx # "left" \/ app = "exited")
    /\ []((~tui_run) => (app = "new" /\ ctx \in {"enter", "body", "left"}
                          /\ ~hold /\ ~_is_ready))

(* C23: with run, the body is entered only once the app is ready, the context
   exits the app only once hold is false, after every toggle of hold to false
   the app eventually exits, and then hold and _is_ready are false; without run
   the context neither waits for readiness nor exits the app. *)
C23_EveryToggleOffExits ==
    /\ TuiSafety
    /\ (ToggledOff ~> app = "exited")

(* C23, amended: as C23, but the app eventually exits when, after the body has
   been left, hold is false from some point on: a toggle to false that is
   undone before the context polls hold, or that the context overwrites with
   its hold argument when it enters the body, exits nothing. *)
C23_HoldGatesExit ==
    /\ TuiSafety
    /\ (<>[](tui_run /\ ctx \in {"wait_hold", "left"} /\ ~hold) => <>(app = "exited"))

C23_Witness ==
    /\ tui_run /\ tui_hold = "true"
    /\ keys = <<"h_off", "h_on", "h_off">>
    /\ ctx = "left" /\ app = "exited" /\ ~hold /\ ~_is_ready

=============================================================================
